---- MODULE Spec2Model ----
(***************************************************************************)
(* A model of the contract agent's core: the cell/row normaliser and the   *)
(* bounded summaries of app/service.py, and the token-caching, retrying    *)
(* chat client of app/llm/aicore_client.py.                                *)
(*                                                                         *)
(* Python strings are sequences of one-character strings, so that strip,   *)
(* replace, substring tests and slices are computed, not assumed.  A cell  *)
(* value is a record [t, s, n, d]:                                         *)
(*   t = "none"                      None                                  *)
(*   t = "str",   s = characters     a str                                 *)
(*   t = "int",   n = value          an int                                *)
(*   t = "float", n = mantissa, d = decimal places (n / 10^d, d >= 1 and   *)
(*                n not a multiple of 10, or n = 0 and d = 1 for 0.0)      *)
(*   t = "float", s = <<"n","a","n">> or <<"i","n","f">>   nan, inf        *)
(***************************************************************************)
EXTENDS Integers, Sequences, FiniteSets, TLC

VARIABLES
    \* clean_cell applied once and twice to one cell value
    value, once, twice, cellPc,
    \* one raw row through classify_row and normalize_fields
    row, category, normalized_fields, rowPc,
    \* process_documents: the parsed payloads and their two summaries
    pdf_payload, excel_payload, contract_summary, invoice_summary, sumPc,
    \* time.time(), in seconds, and the clock advances still allowed
    clock, ticks,
    \* SAPAICoreClient: the cached token and its expiry, the token requests
    \* posted so far, and the last two finished _get_token calls
    _token, _token_expiry, exchanges, token_calls,
    \* what the two endpoints may answer
    endpoint,
    \* the runs that call chat_completion on the client: where each one is
    \* and its locals
    thread,
    \* run_analysis: where the invocation is and what it holds, and the files
    \* of the run in the storage
    analysis, storage,
    \* one HTTP response to a chat request, and what a client makes of it
    reply,
    \* ContractAgentService(): the settings read from the environment, where
    \* the construction is, and what it has built
    service

cellVars == <<value, once, twice, cellPc>>
rowVars == <<row, category, normalized_fields, rowPc>>
sumVars == <<pdf_payload, excel_payload, contract_summary, invoice_summary, sumPc>>
clientVars ==
    <<clock, ticks, _token, _token_expiry, exchanges, token_calls, endpoint, thread>>
analysisVars == <<analysis, storage>>
replyVars == <<reply>>
serviceVars == <<service>>
vars == <<cellVars, rowVars, sumVars, clientVars, analysisVars, replyVars, serviceVars>>

-----------------------------------------------------------------------------
(* Bounds of the model *)

\* longest generated cell string
MaxLen == 4
\* most fields in a generated raw row
MaxFields == 2
\* most elements in a generated contract payload
MaxElements == 48
\* most rows in a generated sheet
MaxRows == 162
\* padding beyond a cap in the long generated texts
Overlong == 50
\* calls of chat_completion made by the run that works alone
MaxCalls == 2
\* clock advances allowed while one run works alone
MaxTicks == 2
\* clock advances allowed while two runs race
RaceTicks == 1
\* clock advances allowed during an analysis
AnalysisTicks == 1
\* the advances of the clock, in seconds: within a short lease, and past
\* the default one
TickSteps == {10, 600}

-----------------------------------------------------------------------------
(* Python values and str methods *)

\* an assignment to a local: the value of F at e, with e computed once
Local(e, F(_)) == CHOOSE y \in {F(x) : x \in {e}} : TRUE

PyNone == [t |-> "none", s |-> <<>>, n |-> 0, d |-> 0]
PyStr(chars) == [t |-> "str", s |-> chars, n |-> 0, d |-> 0]
PyInt(i) == [t |-> "int", s |-> <<>>, n |-> i, d |-> 0]
PyFloat(m, places) == [t |-> "float", s |-> <<>>, n |-> m, d |-> places]
PyNaN == [t |-> "float", s |-> <<"n", "a", "n">>, n |-> 0, d |-> 0]
PyInf == [t |-> "float", s |-> <<"i", "n", "f">>, n |-> 0, d |-> 0]

Whitespace == {" ", "\t", "\n"}
DigitChars == <<"0", "1", "2", "3", "4", "5", "6", "7", "8", "9">>
Digits == {DigitChars[i] : i \in 1..10}
DigitVal(c) == (CHOOSE i \in 1..10 : DigitChars[i] = c) - 1

UpperChars == <<"A", "B", "C", "D", "E", "F", "G", "H", "I", "J", "K", "L", "M",
                "N", "O", "P", "Q", "R", "S", "T", "U", "V", "W", "X", "Y", "Z">>
LowerChars == <<"a", "b", "c", "d", "e", "f", "g", "h", "i", "j", "k", "l", "m",
                "n", "o", "p", "q", "r", "s", "t", "u", "v", "w", "x", "y", "z">>

LowerChar(c) ==
    IF \E i \in 1..26 : UpperChars[i] = c
    THEN LowerChars[CHOOSE i \in 1..26 : UpperChars[i] = c]
    ELSE c

\* str.lower()
Lower(s) == [i \in 1..Len(s) |-> LowerChar(s[i])]

RECURSIVE LStrip(_)
LStrip(s) ==
    IF s # <<>> /\ Head(s) \in Whitespace THEN LStrip(Tail(s)) ELSE s

RECURSIVE RStrip(_)
RStrip(s) ==
    IF s # <<>> /\ s[Len(s)] \in Whitespace
    THEN RStrip(SubSeq(s, 1, Len(s) - 1))
    ELSE s

\* str.strip()
Strip(s) == RStrip(LStrip(s))

\* str.replace(c, '') for every c of chars
RemoveAll(s, chars) == SelectSeq(s, LAMBDA c : c \notin chars)

\* sub in s
Contains(s, sub) ==
    \E i \in 1..(Len(s) - Len(sub) + 1) : SubSeq(s, i, i + Len(sub) - 1) = sub

\* s[:k]
Prefix(s, k) == SubSeq(s, 1, IF Len(s) < k THEN Len(s) ELSE k)

RECURSIVE Pow10(_)
Pow10(k) == IF k = 0 THEN 1 ELSE 10 * Pow10(k - 1)

RECURSIVE DigitsToNat(_)
DigitsToNat(s) ==
    IF s = <<>> THEN 0
    ELSE 10 * DigitsToNat(SubSeq(s, 1, Len(s) - 1)) + DigitVal(s[Len(s)])

RECURSIVE NatToDigits(_)
NatToDigits(k) ==
    IF k < 10 THEN <<DigitChars[k + 1]>>
    ELSE NatToDigits(k \div 10) \o <<DigitChars[(k % 10) + 1]>>

\* the digits of k, zero-padded on the left to w characters
RECURSIVE ZeroPad(_, _)
ZeroPad(s, w) == IF Len(s) >= w THEN s ELSE ZeroPad(<<"0">> \o s, w)

Abs(i) == IF i < 0 THEN -i ELSE i

\* a decimal with its trailing fractional zeros dropped: equal floats get
\* equal representations
RECURSIVE Reduce(_, _)
Reduce(m, places) ==
    IF places > 0 /\ m % 10 = 0 THEN Reduce(m \div 10, places - 1)
    ELSE [n |-> m, d |-> places]

(***************************************************************************)
(* float(s) for the strings the model feeds it: optional surrounding       *)
(* whitespace, an optional sign, then digits with at most one point and at *)
(* least one digit, or nan / inf / infinity in any case.  (Exponents,      *)
(* underscores and non-ASCII digits do not occur in the model's inputs.)   *)
(* The result is [ok, v]; ok = FALSE stands for ValueError.                *)
(***************************************************************************)
ParseFloat(s) == Local(Strip(s), LAMBDA t :
    LET signed == t # <<>> /\ Head(t) \in {"+", "-"}
        neg == signed /\ Head(t) = "-"
        body == IF signed THEN Tail(t) ELSE t
        low == Lower(body)
        points == {i \in 1..Len(body) : body[i] = "."}
        point == IF points = {} THEN Len(body) + 1 ELSE CHOOSE i \in points : TRUE
        intPart == SubSeq(body, 1, point - 1)
        fracPart == SubSeq(body, point + 1, Len(body))
        wellFormed ==
            /\ Cardinality(points) <= 1
            /\ \A i \in 1..Len(body) : body[i] \in Digits \cup {"."}
            /\ Len(intPart) + Len(fracPart) >= 1
        mant == DigitsToNat(intPart \o fracPart)
        red == Reduce(IF neg THEN -mant ELSE mant, Len(fracPart))
    IN  IF low = <<"n", "a", "n">> THEN [ok |-> TRUE, v |-> PyNaN]
        ELSE IF low = <<"i", "n", "f">>
                \/ low = <<"i", "n", "f", "i", "n", "i", "t", "y">>
        THEN [ok |-> TRUE, v |-> PyInf]
        ELSE IF wellFormed
        THEN [ok |-> TRUE,
              v |-> IF red.d = 0 THEN PyFloat(red.n * 10, 1) ELSE PyFloat(red.n, red.d)]
        ELSE [ok |-> FALSE, v |-> PyNone])

\* float.is_integer()
IsInteger(f) == f.s = <<>> /\ f.n % Pow10(f.d) = 0

\* int(f) of a float with an integral value
IntOf(f) == PyInt(f.n \div Pow10(f.d))

\* str(v), which is also what an f-string renders
StrOf(v) ==
    CASE v.t = "none" -> <<"N", "o", "n", "e">>
      [] v.t = "str" -> v.s
      [] v.t = "int" ->
            (IF v.n < 0 THEN <<"-">> ELSE <<>>) \o NatToDigits(Abs(v.n))
      [] v.t = "float" ->
            IF v.s # <<>> THEN v.s
            ELSE (IF v.n < 0 THEN <<"-">> ELSE <<>>)
                 \o NatToDigits(Abs(v.n) \div Pow10(v.d))
                 \o <<".">>
                 \o ZeroPad(NatToDigits(Abs(v.n) % Pow10(v.d)), v.d)

-----------------------------------------------------------------------------
(* _invoice_summary: the normaliser (service.py, lines 54 to 108) *)

amount_keywords ==
    { <<"a", "m", "o", "u", "n", "t">>,
      <<"q", "t", "y">>,
      <<"q", "u", "a", "n", "t", "i", "t", "y">>,
      <<"t", "o", "t", "a", "l">>,
      <<"p", "r", "i", "c", "e">>,
      <<"f", "e", "e">>,
      <<"c", "h", "a", "r", "g", "e">>,
      <<"r", "a", "t", "e">>,
      <<"c", "o", "s", "t">>,
      <<"v", "a", "l", "u", "e">>,
      <<"t", "a", "x">>,
      <<"d", "u", "t", "y">> }

currency_symbols == {"$", "€", "£"}

\* clean_cell with the stripped-of-symbols text returned when the parse fails
clean_cell_returns_normalized(v) ==
    IF v.t = "none" THEN PyStr(<<>>)
    ELSE IF v.t = "str"
    THEN Local(Strip(v.s), LAMBDA stripped :
         Local(RemoveAll(RemoveAll(stripped, {","}), currency_symbols), LAMBDA normalized :
         Local(ParseFloat(normalized), LAMBDA parsed :
             IF stripped = <<>> THEN PyStr(<<>>)
             ELSE IF parsed.ok
             THEN (IF IsInteger(parsed.v) THEN IntOf(parsed.v) ELSE parsed.v)
             ELSE PyStr(normalized))))
    ELSE v

clean_cell(v) ==
    IF v.t = "none" THEN PyStr(<<>>)
    ELSE IF v.t = "str"
    THEN Local(Strip(v.s), LAMBDA stripped :
         Local(RemoveAll(RemoveAll(stripped, {","}), currency_symbols), LAMBDA normalized :
         Local(ParseFloat(normalized), LAMBDA parsed :
             IF stripped = <<>> THEN PyStr(<<>>)
             ELSE IF parsed.ok
             THEN (IF IsInteger(parsed.v) THEN IntOf(parsed.v) ELSE parsed.v)
             ELSE PyStr(stripped))))
    ELSE v

(***************************************************************************)
(* A dict is a sequence of <<key, value>> pairs with distinct keys, in     *)
(* insertion order.  d[k] = v keeps the place of a key already present.    *)
(***************************************************************************)
DictKeys(dict) == {dict[i][1] : i \in 1..Len(dict)}

DictSet(dict, k, v) ==
    IF k \in DictKeys(dict)
    THEN [i \in 1..Len(dict) |-> IF dict[i][1] = k THEN <<k, v>> ELSE dict[i]]
    ELSE Append(dict, <<k, v>>)

\* str(key).strip() if key else "column"
key_name(key) ==
    IF key = <<>> THEN <<"c", "o", "l", "u", "m", "n">> ELSE Strip(key)

\* cleaned in ("", None)
IsBlank(cleaned) == cleaned = PyStr(<<>>) \/ cleaned = PyNone

RECURSIVE normalize_onto(_, _)
normalize_onto(acc, rest) ==
    IF rest = <<>> THEN acc
    ELSE Local(clean_cell(Head(rest)[2]), LAMBDA cleaned :
         Local(IF IsBlank(cleaned) THEN acc
               ELSE DictSet(acc, key_name(Head(rest)[1]), cleaned), LAMBDA next :
         Local(Tail(rest), LAMBDA tail : normalize_onto(next, tail))))

normalize_fields(r) == normalize_onto(<<>>, r)

is_numeric(v) == v.t \in {"int", "float"}

has_keyword(s) == \E keyword \in amount_keywords : Contains(Lower(s), keyword)

has_symbol(s) == \E symbol \in currency_symbols : Contains(s, <<symbol>>)

numeric_values(normalized) ==
    SelectSeq([i \in 1..Len(normalized) |-> normalized[i][2]], is_numeric)

\* classify_row without the keyword_in_keys signal
classify_row_no_key_signal(r) ==
    Local(normalize_fields(r), LAMBDA normalized :
    LET numerics == numeric_values(normalized)
        keyword_in_values ==
            \E i \in 1..Len(normalized) : has_keyword(StrOf(normalized[i][2]))
        has_currency_symbol ==
            \E i \in 1..Len(normalized) : has_symbol(StrOf(normalized[i][2]))
    IN  IF normalized = <<>> THEN "empty"
        ELSE IF numerics = <<>> THEN "metadata"
        ELSE IF has_currency_symbol \/ keyword_in_values \/ Len(numerics) >= 2
        THEN "charge"
        ELSE "possible_charge")

\* classify_row with the tie-break off by one: one numeric field is enough
classify_row_one_numeric(r) ==
    Local(normalize_fields(r), LAMBDA normalized :
    LET numerics == numeric_values(normalized)
        keyword_in_keys ==
            \E i \in 1..Len(normalized) : has_keyword(normalized[i][1])
        keyword_in_values ==
            \E i \in 1..Len(normalized) : has_keyword(StrOf(normalized[i][2]))
        has_currency_symbol ==
            \E i \in 1..Len(normalized) : has_symbol(StrOf(normalized[i][2]))
    IN  IF normalized = <<>> THEN "empty"
        ELSE IF numerics = <<>> THEN "metadata"
        ELSE IF has_currency_symbol \/ keyword_in_keys \/ keyword_in_values
                \/ Len(numerics) >= 1
        THEN "charge"
        ELSE "possible_charge")

\* classify_row with the signals tested before the numeric count
classify_row_signals_first(r) ==
    Local(normalize_fields(r), LAMBDA normalized :
    LET numerics == numeric_values(normalized)
        keyword_in_keys ==
            \E i \in 1..Len(normalized) : has_keyword(normalized[i][1])
        keyword_in_values ==
            \E i \in 1..Len(normalized) : has_keyword(StrOf(normalized[i][2]))
        has_currency_symbol ==
            \E i \in 1..Len(normalized) : has_symbol(StrOf(normalized[i][2]))
    IN  IF normalized = <<>> THEN "empty"
        ELSE IF has_currency_symbol \/ keyword_in_keys \/ keyword_in_values
                \/ Len(numerics) >= 2
        THEN "charge"
        ELSE IF numerics = <<>> THEN "metadata"
        ELSE "possible_charge")

classify_row(r) ==
    Local(normalize_fields(r), LAMBDA normalized :
    LET numerics == numeric_values(normalized)
        keyword_in_keys ==
            \E i \in 1..Len(normalized) : has_keyword(normalized[i][1])
        keyword_in_values ==
            \E i \in 1..Len(normalized) : has_keyword(StrOf(normalized[i][2]))
        has_currency_symbol ==
            \E i \in 1..Len(normalized) : has_symbol(StrOf(normalized[i][2]))
    IN  IF normalized = <<>> THEN "empty"
        ELSE IF numerics = <<>> THEN "metadata"
        ELSE IF has_currency_symbol \/ keyword_in_keys \/ keyword_in_values
                \/ Len(numerics) >= 2
        THEN "charge"
        ELSE "possible_charge")

-----------------------------------------------------------------------------
(* _contract_summary and _invoice_summary (service.py, lines 21 to 151) *)

\* a variable that holds no payload or summary yet
NoPayload == [none |-> TRUE]

\* text_value[:1200]
ClauseTextCap == 1200
\* if len(clauses) >= 40: break
MaxClauses == 40
\* "; ".join(...)[:400]
CompactCap == 400
max_charge_items == 160
max_metadata_preview == 40

\* (item.get("text") or "").strip()
text_value(element) ==
    IF element.text.t = "str" THEN Strip(element.text.s) ELSE <<>>

clause_of(idx, element) ==
    [index |-> idx,
     type |-> element.type,
     text |-> Local(text_value(element), LAMBDA text : Prefix(text, ClauseTextCap)),
     metadata |-> [page_number |-> element.page_number, section |-> element.type]]

\* the loop of lines 24 to 38: the elements with text, in order, up to the
\* break at MaxClauses
collect_clauses(elements) ==
    Local(SelectSeq([i \in 1..Len(elements) |-> i],
                    LAMBDA i : text_value(elements[i]) # <<>>), LAMBDA with_text :
        [j \in 1..(IF Len(with_text) < MaxClauses THEN Len(with_text) ELSE MaxClauses) |->
            clause_of(with_text[j], elements[with_text[j]])])

\* _contract_summary with segment_count taken from the emitted clauses
_contract_summary_counts_clauses(payload) ==
    Local(Local(payload.elements, LAMBDA elements : collect_clauses(elements)),
          LAMBDA clauses :
        [source_file |-> payload.source_file,
         segment_count |-> Len(clauses),
         clauses |-> clauses])

_contract_summary(payload) ==
    [source_file |-> payload.source_file,
     segment_count |-> payload.element_count,
     clauses |-> Local(payload.elements, LAMBDA elements :
                     collect_clauses(elements))]

\* "; ".join(parts)
RECURSIVE Join(_)
Join(parts) ==
    IF parts = <<>> THEN <<>>
    ELSE IF Len(parts) = 1 THEN parts[1]
    ELSE parts[1] \o <<";", " ">> \o Join(Tail(parts))

\* "; ".join(f"{key}: {value}" for key, value in normalized_fields.items())[:400]
compact_of(fields) ==
    Local(Join([i \in 1..Len(fields) |->
                   fields[i][1] \o <<":", " ">> \o StrOf(fields[i][2])]),
          LAMBDA joined : Prefix(joined, CompactCap))

\* {k: v for k, v in normalized_fields.items() if is_numeric(v)}
numeric_fields_of(fields) == SelectSeq(fields, LAMBDA kv : is_numeric(kv[2]))

\* the entry of lines 116 to 125; compact is set only for a row with fields
entry_of(name, idx, r) ==
    Local(normalize_fields(r), LAMBDA fields :
        [sheet |-> name,
         line_number |-> idx,
         category |-> classify_row(r),
         fields |-> fields,
         has_compact |-> fields # <<>>,
         compact |-> IF fields # <<>> THEN compact_of(fields) ELSE <<>>,
         numeric_fields |-> numeric_fields_of(fields)])

\* entry.get("compact", "") of a metadata row
metadata_item_of(entry) ==
    [sheet |-> entry.sheet, line_number |-> entry.line_number, text |-> entry.compact]

\* the entries of the rows of one sheet, numbered from 1 (lines 113 to 121)
sheet_entries(sheet) ==
    Local(sheet.rows, LAMBDA rows :
        [i \in 1..Len(rows) |-> Local(rows[i], LAMBDA r : entry_of(sheet.name, i, r))])

\* the entries of every row, sheet after sheet, in the order the loops of
\* lines 110 and 113 visit them
RECURSIVE all_entries(_, _)
all_entries(sheets, k) ==
    IF k > Len(sheets) THEN <<>>
    ELSE Local(sheets[k], LAMBDA sheet : sheet_entries(sheet))
             \o Local(k + 1, LAMBDA next : all_entries(sheets, next))

\* what the loops append to charge_items, metadata_items and sheet_overview
collect_sheets(sheets) ==
    Local(all_entries(sheets, 1), LAMBDA entries :
    Local(SelectSeq(entries, LAMBDA e : e.category = "metadata"), LAMBDA metadata_entries :
        [sheet_overview |->
             [k \in 1..Len(sheets) |->
                 [sheet |-> sheets[k].name,
                  row_count |-> Len(sheets[k].rows),
                  columns |-> sheets[k].columns]],
         charge_items |->
             SelectSeq(entries,
                       LAMBDA e : e.category \in {"charge", "possible_charge"}),
         metadata_items |->
             [i \in 1..Len(metadata_entries) |-> metadata_item_of(metadata_entries[i])]]))

CountCategory(items, cat) == Len(SelectSeq(items, LAMBDA item : item.category = cat))

\* _invoice_summary with the counts taken from the lists as emitted
_invoice_summary_counts_emitted(payload) ==
    Local(Local(payload.sheets, LAMBDA sheets : collect_sheets(sheets)), LAMBDA lists :
    Local(Prefix(lists.charge_items, max_charge_items), LAMBDA emitted :
    Local(Prefix(lists.metadata_items, max_metadata_preview), LAMBDA preview :
        [source_file |-> payload.source_file,
         sheet_count |-> Len(payload.sheets),
         total_line_items |-> Len(emitted) + Len(preview),
         charge_item_count |-> Len(emitted),
         metadata_item_count |-> Len(preview),
         charge_category_breakdown |->
             [charge |-> CountCategory(emitted, "charge"),
              possible_charge |-> CountCategory(emitted, "possible_charge")],
         sheet_overview |-> lists.sheet_overview,
         charge_items |-> emitted,
         metadata_preview |-> preview])))

\* _invoice_summary with the two lists emitted whole
_invoice_summary_untruncated(payload) ==
    Local(Local(payload.sheets, LAMBDA sheets : collect_sheets(sheets)), LAMBDA lists :
        [source_file |-> payload.source_file,
         sheet_count |-> Len(payload.sheets),
         total_line_items |-> Len(lists.charge_items) + Len(lists.metadata_items),
         charge_item_count |-> Len(lists.charge_items),
         metadata_item_count |-> Len(lists.metadata_items),
         charge_category_breakdown |->
             [charge |-> CountCategory(lists.charge_items, "charge"),
              possible_charge |-> CountCategory(lists.charge_items, "possible_charge")],
         sheet_overview |-> lists.sheet_overview,
         charge_items |-> lists.charge_items,
         metadata_preview |-> lists.metadata_items])

_invoice_summary(payload) ==
    Local(Local(payload.sheets, LAMBDA sheets : collect_sheets(sheets)), LAMBDA lists :
        [source_file |-> payload.source_file,
         sheet_count |-> Len(payload.sheets),
         total_line_items |-> Len(lists.charge_items) + Len(lists.metadata_items),
         charge_item_count |-> Len(lists.charge_items),
         metadata_item_count |-> Len(lists.metadata_items),
         charge_category_breakdown |->
             [charge |-> CountCategory(lists.charge_items, "charge"),
              possible_charge |-> CountCategory(lists.charge_items, "possible_charge")],
         sheet_overview |-> lists.sheet_overview,
         charge_items |-> Prefix(lists.charge_items, max_charge_items),
         metadata_preview |-> Prefix(lists.metadata_items, max_metadata_preview)])

-----------------------------------------------------------------------------
(* Inputs *)

\* the characters of the generated cell strings
CellAlphabet == {" ", ",", "$", "1", "0", ".", "-", "a"}

RECURSIVE StringsUpTo(_)
StringsUpTo(k) ==
    IF k = 0 THEN {<<>>}
    ELSE LET shorter == StringsUpTo(k - 1)
         IN  shorter \cup {Append(s, c) : s \in shorter, c \in CellAlphabet}

\* cell values: None, every string over CellAlphabet up to MaxLen characters,
\* and already-typed numbers
CellInputs ==
    {PyNone, PyInt(0), PyInt(7), PyFloat(25, 1), PyFloat(0, 1), PyNaN, PyInf,
     PyStr(<<"n", "a", "n">>), PyStr(<<"I", "n", "f">>)}
        \cup {PyStr(s) : s \in StringsUpTo(MaxLen)}

\* column names: plain, with a keyword, with padding (" A" and "A" name the
\* same normalised field), and the empty name
RowKeys ==
    { <<"A">>, <<"B">>, <<" ", "A">>, <<>>, <<"Q", "t", "y">> }

\* cells of the generated rows
RowCells ==
    { PyNone,
      PyStr(<<" ">>),
      PyStr(<<"3">>),
      PyStr(<<"$", "4", "5", ".", "0", "0">>),
      PyStr(<<"s", "e", "e", " ", "F", "e", "e">>),
      PyStr(<<"$">>),
      PyStr(<<"P", "O">>),
      PyFloat(25, 1) }

RECURSIVE RowsUpTo(_)
RowsUpTo(k) ==
    IF k = 0 THEN {<<>>}
    ELSE LET shorter == RowsUpTo(k - 1)
         IN  shorter \cup
             {Append(r, <<key, cell>>) :
                 r \in {x \in shorter : Len(x) = k - 1},
                 key \in RowKeys, cell \in RowCells}

\* raw rows: dicts, so the keys of a row are distinct
RawRows ==
    {r \in RowsUpTo(MaxFields) :
        \A i, j \in 1..Len(r) : i # j => r[i][1] # r[j][1]}

-----------------------------------------------------------------------------
(* clean_cell applied to a cell value, and to its own result *)

CellIdle ==
    /\ value = PyNone /\ once = PyNone /\ twice = PyNone /\ cellPc = "off"

RowIdle ==
    /\ row = <<>> /\ category = "" /\ normalized_fields = <<>> /\ rowPc = "off"

SumIdle ==
    /\ pdf_payload = NoPayload /\ excel_payload = NoPayload
    /\ contract_summary = NoPayload /\ invoice_summary = NoPayload
    /\ sumPc = "off"

\* the two runs that may share one client
Runs == {"run_a", "run_b"}

\* no token request answered yet
NoResponse ==
    [kind |-> "none", status |-> 0, access_token |-> FALSE, expires_in |-> "omitted"]

\* a run that is not started
NoThread ==
    [pc |-> "off", calls |-> 0, attempt_number |-> 0, now |-> 0,
     lease_before |-> <<PyNone, 0>>, token_call |-> "none", exchange |-> NoResponse,
     request |-> 0, token |-> PyNone, expires_in |-> 0,
     error |-> PyNone, outcome |-> PyNone,
     chat_calls |-> 0, chat_posts |-> 0]

\* run_analysis not called
NoAnalysis == [pc |-> "off", comment_md |-> PyNone, error |-> PyNone, result |-> PyNone]

\* a storage without files
NoFiles == [name \in {} |-> PyNone]

AnalysisIdle == analysis = NoAnalysis /\ storage = NoFiles

\* no response received
ReplyIdle == reply = [pc |-> "off"]

\* no service asked for
ServiceIdle == service = [pc |-> "off"]

ClientIdle ==
    /\ clock = 0 /\ ticks = 0
    /\ _token = PyNone /\ _token_expiry = 0
    /\ exchanges = 0 /\ token_calls = <<>>
    /\ endpoint = [token |-> {}, chat |-> {}]
    /\ thread = [r \in Runs |-> NoThread]

InitCell ==
    /\ value \in CellInputs
    /\ once = PyNone
    /\ twice = PyNone
    /\ cellPc = "raw"
    /\ RowIdle
    /\ SumIdle
    /\ ClientIdle
    /\ AnalysisIdle
    /\ ReplyIdle
    /\ ServiceIdle

CleanOnce ==
    /\ cellPc = "raw"
    /\ once' = clean_cell(value)
    /\ cellPc' = "once"
    /\ UNCHANGED <<value, twice, rowVars, sumVars, clientVars, analysisVars, replyVars, serviceVars>>

CleanTwice ==
    /\ cellPc = "once"
    /\ twice' = clean_cell(once)
    /\ cellPc' = "twice"
    /\ UNCHANGED <<value, once, rowVars, sumVars, clientVars, analysisVars, replyVars, serviceVars>>

NextCell == CleanOnce \/ CleanTwice

SpecCell == InitCell /\ [][NextCell]_vars

-----------------------------------------------------------------------------
(* One raw row through the loop body of _invoice_summary (lines 114, 115) *)

InitRow ==
    /\ row \in RawRows
    /\ category = ""
    /\ normalized_fields = <<>>
    /\ rowPc = "raw"
    /\ CellIdle
    /\ SumIdle
    /\ ClientIdle
    /\ AnalysisIdle
    /\ ReplyIdle
    /\ ServiceIdle

ClassifyRow ==
    /\ rowPc = "raw"
    /\ category' = classify_row(row)
    /\ rowPc' = "classified"
    /\ UNCHANGED <<row, normalized_fields, cellVars, sumVars, clientVars, analysisVars, replyVars, serviceVars>>

NormalizeRow ==
    /\ rowPc = "classified"
    /\ normalized_fields' = normalize_fields(row)
    /\ rowPc' = "normalized"
    /\ UNCHANGED <<row, category, cellVars, sumVars, clientVars, analysisVars, replyVars, serviceVars>>

NextRow == ClassifyRow \/ NormalizeRow

SpecRow == InitRow /\ [][NextRow]_vars

\* a text of k characters
LongText(k) == [i \in 1..k |-> "x"]

Element(text) == [text |-> text, type |-> "NarrativeText", page_number |-> 1]

\* element i of a generated contract payload: padded short texts; the same
\* with every eighth text blank or missing; or over-long texts first
ElementPatterns == {"plain", "gaps", "long"}

ElementAt(pattern, i) ==
    CASE pattern = "gaps" /\ i % 16 = 0 -> Element(PyNone)
      [] pattern = "gaps" /\ i % 16 = 8 -> Element(PyStr(<<" ", " ">>))
      [] pattern = "long" /\ i <= 2 ->
            Element(PyStr(<<" ">> \o LongText(ClauseTextCap + Overlong)))
      [] OTHER -> Element(PyStr(<<" ", "a", "b", " ">>))

\* what parse_pdf returns: element_count is the length of the element list
PdfPayload(pattern, k) ==
    [source_file |-> "contract.pdf",
     element_count |-> k,
     elements |-> [i \in 1..k |-> ElementAt(pattern, i)]]

ElementCounts == (0..2) \cup ((MaxClauses - 1)..MaxElements)

ContractPayloads ==
    {PdfPayload(pattern, k) : pattern \in ElementPatterns, k \in ElementCounts}

ChargeRow ==
    << << <<"Q", "t", "y">>, PyStr(<<"3">>) >>,
       << <<"B">>, PyStr(<<"$", "4", "5", ".", "0", "0">>) >> >>
PossibleRow == << << <<"A">>, PyStr(<<"3">>) >> >>
MetadataRow == << << <<"A">>, PyStr(<<"P", "O">>) >> >>
BlankRow == << << <<"A">>, PyStr(<<" ">>) >>, << <<"B">>, PyNone >> >>
LongChargeRow ==
    << << <<"A">>, PyStr(LongText(CompactCap + Overlong)) >>,
       << <<"B">>, PyStr(<<"3">>) >>,
       << <<"Q", "t", "y">>, PyFloat(25, 1) >> >>
LongMetadataRow == << << <<"A">>, PyStr(LongText(CompactCap + Overlong)) >> >>

\* the rows of a generated sheet: a first row, then a cycle of rows
RowPatterns ==
    { <<ChargeRow, ChargeRow>>, <<PossibleRow, PossibleRow>>,
      <<MetadataRow, MetadataRow>>,
      <<ChargeRow, MetadataRow, BlankRow, PossibleRow, ChargeRow>>,
      <<LongChargeRow, ChargeRow>>, <<LongMetadataRow, MetadataRow>> }

RowsOf(pattern, k) ==
    [i \in 1..k |->
        IF i = 1 THEN pattern[1] ELSE pattern[((i - 2) % (Len(pattern) - 1)) + 2]]

Sheet(name, rows) ==
    [name |-> name,
     rows |-> rows,
     columns |-> IF rows = <<>> THEN <<>>
                 ELSE [i \in 1..Len(rows[1]) |-> rows[1][i][1]]]

RowCounts ==
    (0..2) \cup ((max_metadata_preview - 1)..(max_metadata_preview + 1))
           \cup ((max_charge_items - 1)..MaxRows)

\* a workbook of one sheet, or of two sheets that share the rows
ExcelPayload(pattern, k, split) ==
    LET rows == RowsOf(pattern, k)
    IN  [source_file |-> "invoice.xlsx",
         sheets |-> IF split
                    THEN <<Sheet("S1", SubSeq(rows, 1, k \div 2)),
                           Sheet("S2", SubSeq(rows, (k \div 2) + 1, k))>>
                    ELSE <<Sheet("S1", rows)>>]

InvoicePayloads ==
    {ExcelPayload(pattern, k, split) :
        pattern \in RowPatterns, k \in RowCounts, split \in BOOLEAN}

\* what parse_excel returns for a workbook without sheets (excel_parser.py,
\* lines 40 to 45)
NoDataExcel ==
    [source_file |-> "invoice.xlsx",
     sheets |-> <<Sheet("Sheet1",
                    << << << <<"n", "o", "t", "i", "c", "e">>,
                             PyStr(<<"n", "o", " ", "d", "a", "t", "a">>) >> >> >>)>>]

\* every cap exceeded at once
StressPdf == PdfPayload("long", MaxElements)
StressExcel ==
    [source_file |-> "invoice.xlsx",
     sheets |-> <<Sheet("S1", RowsOf(<<LongChargeRow, ChargeRow>>, MaxRows)),
                  Sheet("S2", RowsOf(<<LongMetadataRow, MetadataRow>>,
                                     max_metadata_preview + 2))>>]

\* more charge rows and more metadata rows than are emitted, after a sheet
\* that mixes them with blank rows
MixedExcel ==
    [source_file |-> "invoice.xlsx",
     sheets |-> <<Sheet("S1", RowsOf(<<ChargeRow, MetadataRow, BlankRow,
                                       PossibleRow, ChargeRow>>, 9)),
                  Sheet("S2", RowsOf(<<PossibleRow, ChargeRow, PossibleRow>>,
                                     MaxRows)),
                  Sheet("S3", RowsOf(<<MetadataRow, MetadataRow>>,
                                     max_metadata_preview + 2))>>]

-----------------------------------------------------------------------------
(* process_documents: the two summaries of the parsed payloads (lines 190, 191) *)

InitSummary ==
    /\ \/ pdf_payload \in ContractPayloads /\ excel_payload = NoDataExcel
       \/ pdf_payload = PdfPayload("plain", 0) /\ excel_payload \in InvoicePayloads
       \/ pdf_payload = StressPdf /\ excel_payload = StressExcel
       \/ pdf_payload = PdfPayload("gaps", 2) /\ excel_payload = MixedExcel
    /\ contract_summary = NoPayload
    /\ invoice_summary = NoPayload
    /\ sumPc = "parsed"
    /\ CellIdle
    /\ RowIdle
    /\ ClientIdle
    /\ AnalysisIdle
    /\ ReplyIdle
    /\ ServiceIdle

ContractSummarize ==
    /\ sumPc = "parsed"
    /\ contract_summary' = _contract_summary(pdf_payload)
    /\ sumPc' = "contract_done"
    /\ UNCHANGED <<pdf_payload, excel_payload, invoice_summary, cellVars, rowVars, clientVars, analysisVars, replyVars, serviceVars>>

InvoiceSummarize ==
    /\ sumPc = "contract_done"
    /\ invoice_summary' = _invoice_summary(excel_payload)
    /\ sumPc' = "summarized"
    /\ UNCHANGED <<pdf_payload, excel_payload, contract_summary, cellVars, rowVars,
                   clientVars, analysisVars, replyVars, serviceVars>>

\* StorageManager.save_yaml, save_markdown: the file of that name is written
save_file(files, name, content) ==
    [n \in (DOMAIN files) \cup {name} |-> IF n = name THEN content ELSE files[n]]

\* the four files process_documents saves for a run (lines 198 to 201)
saved_documents(files, pdf, excel, contract, invoice) ==
    [n \in (DOMAIN files) \cup {"contract.yaml", "invoice.yaml",
                                 "contract_summary.yaml", "invoice_summary.yaml"} |->
        CASE n = "contract.yaml" -> [yaml |-> pdf]
          [] n = "invoice.yaml" -> [yaml |-> excel]
          [] n = "contract_summary.yaml" -> [yaml |-> contract]
          [] n = "invoice_summary.yaml" -> [yaml |-> invoice]
          [] OTHER -> files[n]]

\* lines 193 to 215: the payloads and the summaries are saved and returned
Persist ==
    /\ sumPc = "summarized"
    /\ storage' = saved_documents(storage, pdf_payload, excel_payload,
                                  contract_summary, invoice_summary)
    /\ sumPc' = "returned"
    /\ UNCHANGED <<pdf_payload, excel_payload, contract_summary, invoice_summary,
                   analysis, cellVars, rowVars, clientVars, replyVars, serviceVars>>

NextSummary == ContractSummarize \/ InvoiceSummarize \/ Persist

SpecSummary == InitSummary /\ [][NextSummary]_vars

-----------------------------------------------------------------------------
(* SAPAICoreClient (aicore_client.py): _get_token and the retried            *)
(* chat_completion.  One step per line of _get_token that reads or writes    *)
(* the cached lease, so that two runs on one client interleave as two Python *)
(* threads do.                                                               *)

\* now < self._token_expiry - 30
TokenMargin == 30
\* body.get("expires_in", 600)
DefaultExpiresIn == 600
\* stop_after_attempt(3)
MaxAttempts == 3
\* wait_exponential(multiplier=2, min=1, max=30)
WaitMultiplier == 2
WaitMin == 1
WaitMax == 30

\* the token issued in answer to the k-th token request
IssuedToken(k) == PyStr(<<"t", "k">> \o NatToDigits(k))

\* not v, for a token
Falsy(v) == v = PyNone \/ v = PyStr(<<>>)

\* what the auth endpoint may answer: no answer at all (the post raises), a
\* status other than 200, or a 200 whose body has or lacks access_token and
\* has, lacks or garbles expires_in
TokenResponses ==
    { [kind |-> "network_error", status |-> 0, access_token |-> FALSE, expires_in |-> "omitted"],
      [kind |-> "response", status |-> 401, access_token |-> TRUE, expires_in |-> "omitted"],
      [kind |-> "response", status |-> 200, access_token |-> FALSE, expires_in |-> "omitted"],
      [kind |-> "response", status |-> 200, access_token |-> TRUE, expires_in |-> "omitted"],
      [kind |-> "response", status |-> 200, access_token |-> TRUE, expires_in |-> "20"],
      [kind |-> "response", status |-> 200, access_token |-> TRUE, expires_in |-> "45"],
      [kind |-> "response", status |-> 200, access_token |-> TRUE, expires_in |-> "soon"] }

\* what the chat endpoint may answer
ChatResponses ==
    { "network_error", "status_500", "no_choices", "choice_not_a_dict",
      "empty_content", "content" }

\* the answers given while two runs race: a token with the default lease or
\* a refusal, and a completion or a server error
RaceTokenResponses ==
    {response \in TokenResponses :
        \/ response.status = 401
        \/ response.status = 200 /\ response.access_token
                                  /\ response.expires_in = "omitted"}
RaceChatResponses == {"status_500", "content"}

\* float(body.get("expires_in", 600)), in whole seconds; ok = FALSE stands
\* for ValueError
expires_in_of(response) ==
    IF response.expires_in = "omitted" THEN [ok |-> TRUE, v |-> DefaultExpiresIn]
    ELSE IF response.expires_in = "20" THEN [ok |-> TRUE, v |-> 20]
    ELSE IF response.expires_in = "45" THEN [ok |-> TRUE, v |-> 45]
    ELSE [ok |-> FALSE, v |-> 0]

\* body.get("access_token") of the answer to request k
access_token_of(response, k) ==
    IF response.access_token THEN IssuedToken(k) ELSE PyNone

Error(type, message, attempt) ==
    [type |-> type, message |-> message, attempt |-> attempt]

\* a retry predicate that takes every exception
retry_if_exception(error) == error.type = error.type

\* the exception types named by retry_if_exception_type
Retryable(error) == error.type \in {"RequestException", "SAPAICoreClientError"}

\* the checks of lines 66 to 78 without the test for a missing token
token_error_status_only(response, k) ==
    IF response.kind = "network_error" THEN "RequestException"
    ELSE IF response.status # 200 THEN "SAPAICoreClientError"
    ELSE IF ~expires_in_of(response).ok THEN "ValueError"
    ELSE "none"

\* the exception lines 66 to 80 raise on a response, or "none"
token_error(response, k) ==
    IF response.kind = "network_error" THEN "RequestException"
    ELSE IF response.status # 200 THEN "SAPAICoreClientError"
    ELSE IF Falsy(access_token_of(response, k)) THEN "SAPAICoreClientError"
    ELSE IF ~expires_in_of(response).ok THEN "ValueError"
    ELSE "none"

\* the exception lines 104 to 118 raise on a response, or "none"
chat_error(response) ==
    CASE response = "network_error" -> "RequestException"
      [] response = "status_500" -> "SAPAICoreClientError"
      [] response = "no_choices" -> "SAPAICoreClientError"
      [] response = "choice_not_a_dict" -> "AttributeError"
      [] response = "empty_content" -> "SAPAICoreClientError"
      [] response = "content" -> "none"
      [] response = "short_content" -> "none"

\* message.get("content") of a response that carries one: a review, or "ok"
content_of(response) ==
    IF response = "short_content" THEN PyStr(<<"o", "k">>)
    ELSE PyStr(<<"#", " ">> \o LongText(40))

\* the lease test of line 59 with the comparison turned round
lease_is_fresh_inverted(now, expiry) == now > expiry - TokenMargin

\* now < self._token_expiry - 30
lease_is_fresh(now, expiry) == now < expiry - TokenMargin

\* a stop condition that gives up one attempt early
stop_after_attempt_early(attempt_number) == attempt_number >= MaxAttempts - 1

\* stop_after_attempt(3)
stop_after_attempt(attempt_number) == attempt_number >= MaxAttempts

RECURSIVE Pow2(_)
Pow2(k) == IF k = 0 THEN 1 ELSE 2 * Pow2(k - 1)

\* wait_exponential(multiplier=2, min=1, max=30) after the given attempt
wait_exponential(attempt_number) ==
    Local(WaitMultiplier * Pow2(attempt_number - 1), LAMBDA result :
        IF result > WaitMax THEN WaitMax
        ELSE IF result < WaitMin THEN WaitMin
        ELSE result)

\* the finished _get_token call of a run, as the claims look back on it
TokenCall(r, t, exchanged, installed, returned, expiry) ==
    [run |-> r, now |-> t.now, exchanged |-> exchanged, installed |-> installed,
     returned |-> returned, expiry |-> expiry, posted |-> exchanges]

\* the last two finished calls; they are kept for the run that works alone,
\* whose calls follow one another
Logged(call) ==
    IF \E r \in Runs : thread[r].pc = "off"
    THEN (IF token_calls = <<>> THEN <<call>>
          ELSE <<token_calls[Len(token_calls)], call>>)
    ELSE token_calls

\* time passes.  The clock is read at line 58 and nowhere else, so time that
\* passes shows at the next reading; it passes before a reading, and while a
\* token request is out, between the reading and the writing of the expiry.
Tick ==
    /\ ticks > 0
    /\ \E r \in Runs : thread[r].pc \in {"build_headers", "await_token"}
    /\ \E step \in TickSteps : clock' = clock + step
    /\ ticks' = ticks - 1
    /\ UNCHANGED <<_token, _token_expiry, exchanges, token_calls, endpoint, thread,
                   cellVars, rowVars, sumVars, analysisVars, replyVars, serviceVars>>

\* a run calls chat_completion: the first attempt begins
StartCall(r) ==
    /\ thread[r].pc \in {"idle", "returned", "raised"}
    /\ thread[r].calls > 0
    /\ thread' = [thread EXCEPT ![r] =
            [NoThread EXCEPT !.pc = "build_headers",
                             !.calls = thread[r].calls - 1,
                             !.attempt_number = 1,
                             !.chat_calls = thread[r].chat_calls + 1]]
    /\ UNCHANGED <<clock, ticks, _token, _token_expiry, exchanges, token_calls,
                   endpoint, cellVars, rowVars, sumVars, analysisVars, replyVars, serviceVars>>

\* line 58: _get_token reads the clock
GetToken(r) ==
    /\ thread[r].pc = "build_headers"
    /\ thread' = [thread EXCEPT ![r].pc = "read_token",
                                ![r].now = clock,
                                ![r].lease_before = <<_token, _token_expiry>>,
                                ![r].token_call = "running",
                                ![r].exchange = NoResponse]
    /\ UNCHANGED <<clock, ticks, _token, _token_expiry, exchanges, token_calls,
                   endpoint, cellVars, rowVars, sumVars, analysisVars, replyVars, serviceVars>>

\* line 59, left operand: self._token
ReadToken(r) ==
    /\ thread[r].pc = "read_token"
    /\ thread' = [thread EXCEPT ![r].pc =
            IF Falsy(_token) THEN "post_token" ELSE "read_expiry"]
    /\ UNCHANGED <<clock, ticks, _token, _token_expiry, exchanges, token_calls,
                   endpoint, cellVars, rowVars, sumVars, analysisVars, replyVars, serviceVars>>

\* line 59, right operand: now < self._token_expiry - 30
ReadExpiry(r) ==
    /\ thread[r].pc = "read_expiry"
    /\ thread' = [thread EXCEPT ![r].pc =
            IF lease_is_fresh(thread[r].now, _token_expiry)
            THEN "return_cached" ELSE "post_token"]
    /\ UNCHANGED <<clock, ticks, _token, _token_expiry, exchanges, token_calls,
                   endpoint, cellVars, rowVars, sumVars, analysisVars, replyVars, serviceVars>>

\* line 60: return self._token
ReturnCached(r) ==
    /\ thread[r].pc = "return_cached"
    /\ thread' = [thread EXCEPT ![r].pc = "post_chat",
                                ![r].token = _token,
                                ![r].token_call = "returned"]
    /\ token_calls' =
           Logged(TokenCall(r, thread[r], FALSE, FALSE, _token, _token_expiry))
    /\ UNCHANGED <<clock, ticks, _token, _token_expiry, exchanges,
                   endpoint, cellVars, rowVars, sumVars, analysisVars, replyVars, serviceVars>>

\* lines 62 to 71: the token request is posted
PostToken(r) ==
    /\ thread[r].pc = "post_token"
    /\ exchanges' = exchanges + 1
    /\ thread' = [thread EXCEPT ![r].pc = "await_token",
                                ![r].request = exchanges + 1]
    /\ UNCHANGED <<clock, ticks, _token, _token_expiry, token_calls,
                   endpoint, cellVars, rowVars, sumVars, analysisVars, replyVars, serviceVars>>

\* lines 66 to 80: the post returns or raises, and the response is checked
TokenResponse(r) ==
    /\ thread[r].pc = "await_token"
    /\ \E response \in endpoint.token :
        \E error \in {token_error(response, thread[r].request)} :
            IF error # "none"
            THEN /\ thread' = [thread EXCEPT
                        ![r].pc = "failed",
                        ![r].exchange = response,
                        ![r].token_call = "raised",
                        ![r].error =
                            Error(error, "token", thread[r].attempt_number)]
                 /\ token_calls' =
                        Logged(TokenCall(r, thread[r], TRUE, FALSE, PyNone, _token_expiry))
            ELSE /\ thread' = [thread EXCEPT
                        ![r].pc = "set_token",
                        ![r].exchange = response,
                        ![r].token = access_token_of(response, thread[r].request),
                        ![r].expires_in = expires_in_of(response).v]
                 /\ UNCHANGED token_calls
    /\ UNCHANGED <<clock, ticks, _token, _token_expiry, exchanges,
                   endpoint, cellVars, rowVars, sumVars, analysisVars, replyVars, serviceVars>>

\* line 81: self._token = token
SetToken(r) ==
    /\ thread[r].pc = "set_token"
    /\ _token' = thread[r].token
    /\ thread' = [thread EXCEPT ![r].pc = "set_expiry"]
    /\ UNCHANGED <<clock, ticks, _token_expiry, exchanges, token_calls,
                   endpoint, cellVars, rowVars, sumVars, analysisVars, replyVars, serviceVars>>

\* an expiry counted from the moment it is written
SetExpiry_from_clock(r) ==
    /\ thread[r].pc = "set_expiry"
    /\ _token_expiry' = clock + thread[r].expires_in
    /\ thread' = [thread EXCEPT ![r].pc = "post_chat",
                                ![r].token_call = "returned"]
    /\ token_calls' =
           Logged(TokenCall(r, thread[r], TRUE, TRUE, thread[r].token,
                            clock + thread[r].expires_in))
    /\ UNCHANGED <<clock, ticks, _token, exchanges,
                   endpoint, cellVars, rowVars, sumVars, analysisVars, replyVars, serviceVars>>

\* lines 82 and 83: self._token_expiry = now + expires_in; return token
SetExpiry(r) ==
    /\ thread[r].pc = "set_expiry"
    /\ _token_expiry' = thread[r].now + thread[r].expires_in
    /\ thread' = [thread EXCEPT ![r].pc = "post_chat",
                                ![r].token_call = "returned"]
    /\ token_calls' =
           Logged(TokenCall(r, thread[r], TRUE, TRUE, thread[r].token,
                            thread[r].now + thread[r].expires_in))
    /\ UNCHANGED <<clock, ticks, _token, exchanges,
                   endpoint, cellVars, rowVars, sumVars, analysisVars, replyVars, serviceVars>>

\* lines 104 to 109: the chat request is posted with the token in its header
PostChat(r) ==
    /\ thread[r].pc = "post_chat"
    /\ thread' = [thread EXCEPT ![r] =
            [NoThread EXCEPT !.pc = "await_chat",
                             !.calls = thread[r].calls,
                             !.attempt_number = thread[r].attempt_number,
                             !.chat_calls = thread[r].chat_calls,
                             !.chat_posts = thread[r].chat_posts + 1]]
    /\ UNCHANGED <<clock, ticks, _token, _token_expiry, exchanges, token_calls,
                   endpoint, cellVars, rowVars, sumVars, analysisVars, replyVars, serviceVars>>

\* lines 104 to 119: the post returns or raises, and the response is checked
ChatResponse(r) ==
    /\ thread[r].pc = "await_chat"
    /\ \E response \in endpoint.chat :
        \E error \in {chat_error(response)} :
            thread' = [thread EXCEPT
                ![r].pc = IF error # "none" THEN "failed" ELSE "returned",
                ![r].error = IF error # "none"
                             THEN Error(error, response, thread[r].attempt_number)
                             ELSE PyNone,
                ![r].outcome = IF error # "none" THEN PyNone
                               ELSE [returned |-> content_of(response)]]
    /\ UNCHANGED <<clock, ticks, _token, _token_expiry, exchanges, token_calls,
                   endpoint, cellVars, rowVars, sumVars, analysisVars, replyVars, serviceVars>>

\* the retry decorator of lines 85 to 90 on a failed attempt, whose exception
\* it holds as the outcome of the last attempt: an exception of another type,
\* or of the last attempt allowed, is raised as it is (reraise=True);
\* otherwise the run sleeps
Retry(r) ==
    /\ thread[r].pc = "failed"
    /\ \E error \in {thread[r].error} :
        thread' = [thread EXCEPT ![r] =
            [NoThread EXCEPT
                !.pc = IF Retryable(error)
                          /\ ~stop_after_attempt(thread[r].attempt_number)
                       THEN "sleeping" ELSE "raised",
                !.calls = thread[r].calls,
                !.attempt_number = thread[r].attempt_number,
                !.chat_calls = thread[r].chat_calls,
                !.chat_posts = thread[r].chat_posts,
                !.error = error,
                !.outcome = IF Retryable(error)
                               /\ ~stop_after_attempt(thread[r].attempt_number)
                            THEN PyNone ELSE [raised |-> error]]]
    /\ UNCHANGED <<clock, ticks, _token, _token_expiry, exchanges, token_calls,
                   endpoint, cellVars, rowVars, sumVars, analysisVars, replyVars, serviceVars>>

\* the sleep between two attempts ends and the next attempt begins
WakeUp(r) ==
    /\ thread[r].pc = "sleeping"
    /\ clock' = clock + wait_exponential(thread[r].attempt_number)
    /\ thread' = [thread EXCEPT ![r].pc = "build_headers",
                                ![r].attempt_number = thread[r].attempt_number + 1]
    /\ UNCHANGED <<ticks, _token, _token_expiry, exchanges, token_calls,
                   endpoint, cellVars, rowVars, sumVars, analysisVars, replyVars, serviceVars>>

Step(r) ==
    \/ StartCall(r)
    \/ GetToken(r)
    \/ ReadToken(r)
    \/ ReadExpiry(r)
    \/ ReturnCached(r)
    \/ PostToken(r)
    \/ TokenResponse(r)
    \/ SetToken(r)
    \/ SetExpiry(r)
    \/ PostChat(r)
    \/ ChatResponse(r)
    \/ Retry(r)
    \/ WakeUp(r)

\* a client fresh from __init__ (lines 40, 41)
FreshClient ==
    /\ clock = 0
    /\ _token = PyNone
    /\ _token_expiry = 0
    /\ exchanges = 0
    /\ token_calls = <<>>

\* one run makes its calls one after the other
InitClient ==
    /\ FreshClient
    /\ ticks = MaxTicks
    /\ endpoint = [token |-> TokenResponses, chat |-> ChatResponses]
    /\ thread = [r \in Runs |->
            IF r = "run_a" THEN [NoThread EXCEPT !.pc = "idle", !.calls = MaxCalls]
            ELSE NoThread]
    /\ CellIdle
    /\ RowIdle
    /\ SumIdle
    /\ AnalysisIdle
    /\ ReplyIdle
    /\ ServiceIdle

NextClient == Tick \/ \E r \in Runs : Step(r)

SpecClient == InitClient /\ [][NextClient]_vars

\* two runs call chat_completion on one client at the same time
InitRace ==
    /\ FreshClient
    /\ ticks = RaceTicks
    /\ endpoint = [token |-> RaceTokenResponses, chat |-> RaceChatResponses]
    /\ thread = [r \in Runs |-> [NoThread EXCEPT !.pc = "idle", !.calls = 1]]
    /\ CellIdle
    /\ RowIdle
    /\ SumIdle
    /\ AnalysisIdle
    /\ ReplyIdle
    /\ ServiceIdle

NextRace == Tick \/ \E r \in Runs : Step(r)

SpecRace == InitRace /\ [][NextRace]_vars

-----------------------------------------------------------------------------
(* run_analysis (service.py, lines 217 to 238) and the workflow it invokes  *)
(* (workflow.py): one node, comment, that calls chat_completion.            *)

\* the run whose analysis is followed
Analyst == "run_a"

\* the calls of client.chat_completion a node of the graph makes with a try
\* again of its own
calls_made_by_with_retry(node) == IF node = "comment" THEN 2 ELSE 0

\* the calls of client.chat_completion a node of the graph makes
\* (workflow.py, line 42)
calls_made_by(node) == IF node = "comment" THEN 1 ELSE 0

\* comment_node with an exception of the client swallowed
comment_node_swallows(outcome) ==
    IF "raised" \in DOMAIN outcome
    THEN [comment_md |-> PyStr(<<>>)]
    ELSE [comment_md |-> outcome.returned]

\* how comment_node ends: with the exception of the client, or with its
\* response as comment_md (workflow.py, lines 42 to 50)
comment_node(outcome) ==
    IF "raised" \in DOMAIN outcome
    THEN [raised |-> outcome.raised]
    ELSE [comment_md |-> outcome.returned]

\* what the chat endpoint may answer to the analysis
AnalysisChatResponses == ChatResponses \cup {"short_content"}

\* the files of a run that process_documents has handled
ProcessedFiles ==
    saved_documents(NoFiles, PdfPayload("plain", 1), NoDataExcel,
                    _contract_summary(PdfPayload("plain", 1)),
                    _invoice_summary(NoDataExcel))

\* lines 224 to 228: self.workflow.invoke(...) enters the comment node
Invoke ==
    /\ analysis.pc = "ready"
    /\ analysis' = [analysis EXCEPT !.pc = "comment"]
    /\ UNCHANGED <<storage, cellVars, rowVars, sumVars, clientVars, replyVars, serviceVars>>

\* workflow.py, lines 18 to 49: the node builds the prompt and calls the client
CommentCalls ==
    /\ analysis.pc = "comment"
    /\ analysis' = [analysis EXCEPT !.pc = "completion"]
    /\ thread' = [thread EXCEPT ![Analyst].calls = calls_made_by("comment")]
    /\ UNCHANGED <<storage, clock, ticks, _token, _token_expiry, exchanges,
                   token_calls, endpoint, cellVars, rowVars, sumVars, replyVars, serviceVars>>

\* workflow.py, line 50, and service.py, lines 225 to 232: the node ends; an
\* exception passes through invoke and run_analysis, a response becomes
\* state["comment_md"]
CommentEnds ==
    /\ analysis.pc = "completion"
    /\ thread[Analyst].pc \in {"returned", "raised"}
    /\ thread[Analyst].calls = 0
    /\ \E ended \in {comment_node(thread[Analyst].outcome)} :
        analysis' =
            IF "raised" \in DOMAIN ended
            THEN [analysis EXCEPT !.pc = "raised", !.error = ended.raised]
            ELSE [analysis EXCEPT !.pc = "save", !.comment_md = ended.comment_md]
    /\ UNCHANGED <<storage, cellVars, rowVars, sumVars, clientVars, replyVars, serviceVars>>

\* lines 233 to 238: the comment is saved and returned
SaveComment ==
    /\ analysis.pc = "save"
    /\ storage' = save_file(storage, "comment.md", analysis.comment_md)
    /\ analysis' = [analysis EXCEPT
            !.pc = "returned",
            !.result = [comment_md |-> analysis.comment_md,
                        comment_path |-> "comment.md"]]
    /\ UNCHANGED <<cellVars, rowVars, sumVars, clientVars, replyVars, serviceVars>>

InitAnalysis ==
    /\ FreshClient
    /\ ticks = AnalysisTicks
    /\ endpoint = [token |-> TokenResponses, chat |-> AnalysisChatResponses]
    /\ thread = [r \in Runs |->
            IF r = Analyst THEN [NoThread EXCEPT !.pc = "idle"] ELSE NoThread]
    /\ analysis = [NoAnalysis EXCEPT !.pc = "ready"]
    /\ storage = ProcessedFiles
    /\ CellIdle
    /\ RowIdle
    /\ SumIdle
    /\ ReplyIdle
    /\ ServiceIdle

NextAnalysis ==
    \/ Invoke
    \/ CommentCalls
    \/ CommentEnds
    \/ SaveComment
    \/ Tick
    \/ Step(Analyst)

SpecAnalysis == InitAnalysis /\ [][NextAnalysis]_vars

\* the same, with a thread that keeps running: every HTTP call returns or
\* times out (request_timeout, lines 76 and 108) and every sleep ends
SpecAnalysisFair == SpecAnalysis /\ WF_vars(Step(Analyst))

-----------------------------------------------------------------------------
(* What the two chat clients make of one HTTP response: lines 110 to 119 of  *)
(* aicore_client.py and lines 55 to 69 of openai_client.py.  A response is   *)
(* its status and the shape of its JSON body: whether "choices" is absent,   *)
(* null or a list, what the first choice is, and what its message holds.     *)
(* Texts are TLA+ strings here.                                              *)

\* the message of a choice: its "content" and its "tool_calls"
Messages ==
    [content : {"absent", "null", "empty", "text"},
     tool_calls : {"absent", "null", "empty", "calls"}]

\* a dict without keys
EmptyDict == [content |-> "absent", tool_calls |-> "absent"]

\* the first choice: not a dict, or a dict whose "message" is absent, null or
\* a dict
FirstChoices ==
    {[kind |-> k, message |-> EmptyDict] : k \in {"not_a_dict", "absent", "null"}}
        \cup {[kind |-> "dict", message |-> m] : m \in Messages}

\* the responses to a chat request: an error status, or 200 with a body whose
\* "choices" is absent, null, an empty list, or a list of one or two choices
Replies ==
    {[status |-> st, choices |-> "absent", first |-> [kind |-> "absent", message |-> EmptyDict]] :
        st \in {401, 500}}
    \cup {[status |-> 200, choices |-> c, first |-> [kind |-> "absent", message |-> EmptyDict]] :
        c \in {"absent", "null", "empty"}}
    \cup {[status |-> 200, choices |-> c, first |-> f] :
        c \in {"one", "two"}, f \in FirstChoices}

\* body.get("choices") or [] is not empty
has_choices(body) == body.choices \in {"one", "two"}

\* choices[0].get("message") or {}
message_of(body) ==
    IF body.first.kind = "dict" THEN body.first.message ELSE EmptyDict

\* str(message["tool_calls"]) of a non-empty list of calls
str_of_tool_calls == "[{'id': 'call_1', 'type': 'function'}]"

\* str(body) of a body with choices whose first is a dict; a text content is
\* "ok"
str_of_body(body) ==
    LET part(v) ==
            CASE v = "null" -> "None"
              [] v = "empty" -> "''"
              [] v = "text" -> "'ok'"
        calls(v) ==
            CASE v = "null" -> "None"
              [] v = "empty" -> "[]"
              [] v = "calls" -> str_of_tool_calls
        message(m) ==
            "{"
            \o (IF m.content = "absent" THEN ""
                ELSE "'content': " \o part(m.content))
            \o (IF m.content # "absent" /\ m.tool_calls # "absent"
                THEN ", " ELSE "")
            \o (IF m.tool_calls = "absent" THEN ""
                ELSE "'tool_calls': " \o calls(m.tool_calls))
            \o "}"
        choice(first) ==
            CASE first.kind = "absent" -> "{}"
              [] first.kind = "null" -> "{'message': None}"
              [] first.kind = "dict" ->
                    "{'message': " \o message(first.message) \o "}"
    IN  "{'choices': [" \o choice(body.first)
            \o (IF body.choices = "two" THEN ", {}" ELSE "") \o "]}"

\* aicore_client.py, lines 110 to 119
aicore_reply(body) ==
    IF body.status # 200 THEN [raised |-> "SAPAICoreClientError"]
    ELSE IF ~has_choices(body) THEN [raised |-> "SAPAICoreClientError"]
    ELSE IF body.first.kind = "not_a_dict" THEN [raised |-> "AttributeError"]
    ELSE IF message_of(body).content # "text" THEN [raised |-> "SAPAICoreClientError"]
    ELSE [returned |-> "ok"]

\* openai_client.py, lines 55 to 69
openai_reply(body) ==
    IF body.status # 200 THEN [raised |-> "OpenAIClientError"]
    ELSE IF ~has_choices(body) THEN [raised |-> "OpenAIClientError"]
    ELSE IF body.first.kind = "not_a_dict" THEN [raised |-> "AttributeError"]
    ELSE IF message_of(body).content \in {"absent", "null"}
        THEN IF message_of(body).tool_calls = "calls"
             THEN [returned |-> str_of_tool_calls]
             ELSE [returned |-> str_of_body(body)]
    ELSE IF message_of(body).content = "empty" THEN [returned |-> ""]
    ELSE [returned |-> "ok"]

\* SAPAICoreClient.chat_completion from the status check to its end
AICoreReads ==
    /\ reply.pc = "received"
    /\ reply' = [reply EXCEPT !.pc = "done", !.client = "SAPAICoreClient",
                              !.outcome = aicore_reply(reply.body)]
    /\ UNCHANGED <<cellVars, rowVars, sumVars, clientVars, analysisVars, serviceVars>>

\* OpenAIChatClient.chat_completion from the status check to its end
OpenAIReads ==
    /\ reply.pc = "received"
    /\ reply' = [reply EXCEPT !.pc = "done", !.client = "OpenAIChatClient",
                              !.outcome = openai_reply(reply.body)]
    /\ UNCHANGED <<cellVars, rowVars, sumVars, clientVars, analysisVars, serviceVars>>

InitReply ==
    /\ \E body \in Replies :
          reply = [pc |-> "received", body |-> body, client |-> "", outcome |-> PyNone]
    /\ CellIdle
    /\ RowIdle
    /\ SumIdle
    /\ ClientIdle
    /\ AnalysisIdle
    /\ ServiceIdle

NextReply == AICoreReads \/ OpenAIReads

SpecReply == InitReply /\ [][NextReply]_vars

-----------------------------------------------------------------------------
(* ContractAgentService.__init__ (service.py, lines 157 to 173) and the      *)
(* constructor of the client it calls (aicore_client.py, lines 17 to 41).    *)
(* A call with keyword arguments is a function from the names passed to the  *)
(* values passed.                                                            *)

\* the settings Settings.from_env can read (config.py, lines 41 to 58): each
\* variable set or not, the URL with or without a trailing slash
Environments ==
    [sap_aicore_client_id : {PyStr(<<>>), PyStr(<<"i", "d">>)},
     sap_aicore_auth_url : {PyStr(<<"h">>), PyStr(<<"h", "/", "/">>)},
     sap_aicore_deployment_id : {PyStr(<<"d", "1">>)},
     sap_aicore_scope : {PyNone, PyStr(<<"s">>)},
     sap_aicore_api_version :
        {PyStr(<<"2", "0", "2", "3", "-", "0", "5", "-", "1", "5">>),
         PyStr(<<"2", "0", "2", "4">>)},
     chat_completions_path : {PyNone, PyStr(<<"/", "c">>)},
     request_timeout : {120, 30}]

\* SAPAICoreClient(**kwargs): the binding of the keyword-only parameters of
\* line 17 to 28, then the body of __init__
SAPAICoreClient(kwargs) ==
    LET required == {"client_id", "client_secret", "auth_url", "api_base",
                     "deployment_id", "resource_group", "scope"}
        optional == {"chat_completions_path", "request_timeout"}
        arg(name, default) ==
            IF name \in DOMAIN kwargs THEN kwargs[name] ELSE default
        RECURSIVE rstrip(_)
        rstrip(chars) ==
            IF chars # <<>> /\ chars[Len(chars)] = "/"
            THEN rstrip(SubSeq(chars, 1, Len(chars) - 1)) ELSE chars
    IN  IF ~(DOMAIN kwargs \subseteq required \cup optional)
        THEN [raised |-> "TypeError", unexpected |-> DOMAIN kwargs \ (required \cup optional)]
        ELSE IF ~(required \subseteq DOMAIN kwargs)
        THEN [raised |-> "TypeError", unexpected |-> {}]
        ELSE [client_id |-> kwargs["client_id"],
              auth_url |-> PyStr(rstrip(kwargs["auth_url"].s)),
              deployment_id |-> kwargs["deployment_id"],
              scope |-> kwargs["scope"],
              chat_completions_path |->
                 IF Falsy(arg("chat_completions_path", PyNone))
                 THEN PyStr(<<"/", "v", "2", "/", "i", "n", "f", "e", "r", "e", "n", "c", "e", "/", "d", "e", "p", "l", "o", "y", "m", "e", "n", "t", "s", "/">>
                            \o kwargs["deployment_id"].s
                            \o <<"/", "c", "h", "a", "t", "/", "c", "o", "m", "p", "l", "e", "t", "i", "o", "n", "s">>)
                 ELSE kwargs["chat_completions_path"],
              request_timeout |-> arg("request_timeout", 120),
              _token |-> PyNone,
              _token_expiry |-> 0]

\* the keyword arguments of the call of lines 160 to 171
llm_client_kwargs(settings) ==
    [name \in {"client_id", "client_secret", "auth_url", "api_base",
               "deployment_id", "resource_group", "scope",
               "chat_completions_path", "request_timeout", "api_version"} |->
        CASE name = "client_id" -> settings.sap_aicore_client_id
          [] name = "auth_url" -> settings.sap_aicore_auth_url
          [] name = "deployment_id" -> settings.sap_aicore_deployment_id
          [] name = "scope" -> settings.sap_aicore_scope
          [] name = "chat_completions_path" -> settings.chat_completions_path
          [] name = "request_timeout" -> settings.request_timeout
          [] name = "api_version" -> settings.sap_aicore_api_version
          [] OTHER -> PyStr(<<"x">>)]

\* get_service() (line 241), that is ContractAgentService(): the storage, the
\* client, and the workflow compiled around the client; an exception of the
\* client's constructor leaves __init__ at line 160
ContractAgentService ==
    /\ service.pc = "get_service"
    /\ \E built \in {SAPAICoreClient(llm_client_kwargs(service.settings))} :
         service' =
            IF "raised" \in DOMAIN built
            THEN [service EXCEPT !.pc = "raised", !.error = built]
            ELSE [service EXCEPT !.pc = "constructed",
                                 !.llm_client = built,
                                 !.workflow = [nodes |-> <<"comment">>,
                                               client |-> built]]
    /\ UNCHANGED <<cellVars, rowVars, sumVars, clientVars, analysisVars, replyVars>>

InitService ==
    /\ \E settings \in Environments :
          service = [pc |-> "get_service", settings |-> settings,
                     llm_client |-> PyNone, workflow |-> PyNone, error |-> PyNone]
    /\ CellIdle
    /\ RowIdle
    /\ SumIdle
    /\ ClientIdle
    /\ AnalysisIdle
    /\ ReplyIdle

SpecService == InitService /\ [][ContractAgentService]_vars

-----------------------------------------------------------------------------
(* Claims about the client *)

\* C1: of two consecutive _get_token calls, the first of which installed the
\* lease, both made at times before the lease's expiry less 30 seconds, the
\* second posts no token request (one exchange in all) and returns the
\* token the first one cached.  (Checked under SpecClient.)
C1_TokenReuse ==
    Len(token_calls) = 2 =>
        LET first == token_calls[1]
            second == token_calls[2]
        IN  (/\ first.installed
             /\ first.now < first.expiry - 30
             /\ second.now < first.expiry - 30)
                => /\ first.exchanged
                   /\ ~second.exchanged
                   /\ second.posted = first.posted
                   /\ second.returned = first.returned

\* a second call, later than the first and within its lease, got the cached token
C1_Witness ==
    /\ Len(token_calls) = 2
    /\ token_calls[1].installed
    /\ token_calls[1].now < token_calls[1].expiry - 30
    /\ token_calls[2].now < token_calls[1].expiry - 30
    /\ token_calls[2].now > token_calls[1].now
    /\ ~token_calls[2].exchanged
    /\ token_calls[2].returned = token_calls[1].returned
    /\ token_calls[2].returned = IssuedToken(token_calls[1].posted)

\* C2: no call makes more than 3 attempts, and a call that raises a
\* retryable error (so that every attempt of it failed with one) has made
\* exactly 3 attempts and raises the error of the third, as it was raised.
\* (Checked under SpecClient.)
C2_RetryBound ==
    \A r \in Runs :
        /\ thread[r].attempt_number <= 3
        /\ (/\ thread[r].pc = "raised"
            /\ thread[r].outcome.raised.type
                    \in {"RequestException", "SAPAICoreClientError"})
                => /\ thread[r].attempt_number = 3
                   /\ thread[r].error.attempt = 3
                   /\ thread[r].outcome = [raised |-> thread[r].error]

\* a call gave up after a third attempt that failed in the token exchange
C2_Witness ==
    \E r \in Runs :
        /\ thread[r].pc = "raised"
        /\ thread[r].attempt_number = 3
        /\ thread[r].outcome.raised =
               Error("SAPAICoreClientError", "token", 3)

\* the lines of _get_token from the reading of the lease to its writing
InLeaseSection(r) ==
    thread[r].pc \in {"read_token", "read_expiry", "return_cached", "post_token",
                      "await_token", "set_token", "set_expiry"}

\* C3 (as claimed): two runs are never both between reading the lease and
\* writing it.  (Checked under SpecRace.)
C3_LeaseMutualExclusion ==
    \A a, b \in Runs : (a # b /\ InLeaseSection(a)) => ~InLeaseSection(b)

\* the ways an exchange fails that the claim names
FailedExchange(response) ==
    \/ response.kind = "network_error"
    \/ response.kind = "response" /\ response.status # 200
    \/ response.kind = "response" /\ ~response.access_token

\* C4: a _get_token call whose exchange failed (network error, status other
\* than 200, no access_token) has raised, and the cached token and expiry
\* are what they were when the call began.  (Checked under SpecClient.)
C4_FailedExchangeKeepsLease ==
    \A r \in Runs :
        (/\ thread[r].token_call \in {"returned", "raised"}
         /\ FailedExchange(thread[r].exchange))
            => /\ thread[r].token_call = "raised"
               /\ thread[r].pc = "failed"
               /\ thread[r].error.type \in {"RequestException", "SAPAICoreClientError"}
               /\ <<_token, _token_expiry>> = thread[r].lease_before

\* an exchange failed while a lease from an earlier exchange was installed
C4_Witness ==
    \E r \in Runs :
        /\ thread[r].token_call = "raised"
        /\ FailedExchange(thread[r].exchange)
        /\ thread[r].lease_before[1] # PyNone
        /\ <<_token, _token_expiry>> = thread[r].lease_before

\* C17 (as claimed): the sleep of a run after its first failed attempt lasts
\* 1 second and the sleep after its second lasts 2 seconds, and no sleep
\* lasts more than 30 seconds.
C17_Backoff ==
    [][\A r \in Runs :
          (thread[r].pc = "sleeping" /\ thread'[r].pc = "build_headers") =>
              /\ clock' - clock =
                    (IF thread[r].attempt_number = 1 THEN 1 ELSE 2)
              /\ clock' - clock <= 30]_vars

\* _get_token was called with no lease, or with one within 30 seconds of its
\* expiry at the time the call read
StaleAtCall(r) ==
    \/ Falsy(thread[r].lease_before[1])
    \/ thread[r].now >= thread[r].lease_before[2] - 30

\* C19: a _get_token call of the run that works alone, made with no lease or
\* within 30 seconds of its expiry, does not return the cached token; when it
\* returns, it has posted a token request and returns the token of that
\* response, not the one it found, and the client holds that token with the
\* expiry now + expires_in, 600 when the response has none, now being the
\* time the call read at its start.
C19_LeaseRefresh ==
    \A r \in Runs :
        (thread[r].token_call \in {"running", "returned"} /\ StaleAtCall(r)) =>
            /\ thread[r].pc # "return_cached"
            /\ thread[r].token_call = "returned" =>
                    /\ thread[r].exchange.kind = "response"
                    /\ thread[r].exchange.status = 200
                    /\ thread[r].request = exchanges
                    /\ thread[r].token = IssuedToken(thread[r].request)
                    /\ thread[r].token # thread[r].lease_before[1]
                    /\ _token = thread[r].token
                    /\ _token_expiry = thread[r].now +
                            (CASE thread[r].exchange.expires_in = "omitted" -> 600
                               [] thread[r].exchange.expires_in = "20" -> 20
                               [] thread[r].exchange.expires_in = "45" -> 45)

\* a lease near its expiry was replaced, the response gave no expires_in, and
\* time passed while the token request was out
C19_Witness ==
    \E r \in Runs :
        /\ thread[r].token_call = "returned"
        /\ ~Falsy(thread[r].lease_before[1])
        /\ StaleAtCall(r)
        /\ thread[r].exchange.expires_in = "omitted"
        /\ thread[r].token # thread[r].lease_before[1]
        /\ clock > thread[r].now

-----------------------------------------------------------------------------
(* Claims about classify_row (checked under SpecRow) *)

\* what the claims say of the raw row, before any normalisation
RawHasCurrency(r) == \E i \in 1..Len(r) : has_symbol(StrOf(r[i][2]))
RawKeyHasKeyword(r) == \E i \in 1..Len(r) : has_keyword(r[i][1])
RawValueHasKeyword(r) == \E i \in 1..Len(r) : has_keyword(StrOf(r[i][2]))
NumericCount(r) == Len(numeric_values(normalize_fields(r)))
SurvivingKeyHasKeyword(r) ==
    \E i \in 1..Len(r) : ~IsBlank(clean_cell(r[i][2])) /\ has_keyword(r[i][1])
Classified == rowPc \in {"classified", "normalized"}

\* C5 (as claimed): a row with a numeric field after normalisation and a
\* currency symbol in any of its raw field values is classified charge.
C5_CurrencySymbolCharge ==
    (Classified /\ NumericCount(row) >= 1 /\ RawHasCurrency(row))
        => category = "charge"

\* C6 (as claimed): a row with a numeric field after normalisation and an
\* amount keyword in any of its raw keys is classified charge, whether or not
\* the cell under that key survives normalisation.
C6_AnyRawKeyKeywordCharge ==
    (Classified /\ NumericCount(row) >= 1 /\ RawKeyHasKeyword(row))
        => category = "charge"

\* C6 (amended): a row with a numeric field after normalisation and an amount
\* keyword in the key of a field whose cell survives normalisation (is not
\* blank) is classified charge.
C6_SurvivingKeyKeywordCharge ==
    (Classified /\ NumericCount(row) >= 1 /\ SurvivingKeyHasKeyword(row))
        => category = "charge"

\* the key keyword alone decides: one numeric field, no other signal, and the
\* row also has a blank cell that normalisation drops
C6_Witness ==
    /\ Classified
    /\ category = "charge"
    /\ NumericCount(row) = 1
    /\ SurvivingKeyHasKeyword(row)
    /\ ~RawHasCurrency(row)
    /\ ~RawValueHasKeyword(row)
    /\ \E i \in 1..Len(row) : IsBlank(clean_cell(row[i][2]))

\* C7: with no keyword and no currency symbol anywhere in the row, two or more
\* numeric fields give charge and exactly one gives possible_charge.
C7_TieBreak ==
    (Classified /\ ~RawKeyHasKeyword(row) /\ ~RawValueHasKeyword(row)
        /\ ~RawHasCurrency(row))
        => /\ NumericCount(row) >= 2 => category = "charge"
           /\ NumericCount(row) = 1 => category = "possible_charge"

C7_Witness ==
    /\ Classified
    /\ ~RawKeyHasKeyword(row) /\ ~RawValueHasKeyword(row) /\ ~RawHasCurrency(row)
    /\ NumericCount(row) = 2
    /\ category = "charge"

\* C8: no normalised field gives empty; normalised fields none of which is
\* numeric give metadata whatever keywords or symbols the row carries; the
\* signals only choose between charge and possible_charge.
C8_RuleOrder ==
    Classified =>
        /\ normalize_fields(row) = <<>> => category = "empty"
        /\ (normalize_fields(row) # <<>> /\ NumericCount(row) = 0)
                => category = "metadata"
        /\ NumericCount(row) >= 1 => category \in {"charge", "possible_charge"}

\* a row of text only, with a keyword in a key, a keyword in a value and a
\* currency symbol, is metadata
C8_Witness ==
    /\ Classified
    /\ category = "metadata"
    /\ RawKeyHasKeyword(row)
    /\ RawValueHasKeyword(row)
    /\ RawHasCurrency(row)

-----------------------------------------------------------------------------
(* Claims about clean_cell (checked under SpecCell) *)

-----------------------------------------------------------------------------
(* Claims about the summaries (checked under SpecSummary) *)

\* C10: whatever the payload holds, at most 160 charge items, 40 metadata
\* previews and 40 clauses are emitted, no clause text is longer than 1200
\* characters and no compact string or metadata text longer than 400.
C10_Caps ==
    /\ sumPc \in {"contract_done", "summarized"} =>
        /\ Len(contract_summary.clauses) <= 40
        /\ \A i \in 1..Len(contract_summary.clauses) :
               Len(contract_summary.clauses[i].text) <= 1200
    /\ sumPc = "summarized" =>
        /\ Len(invoice_summary.charge_items) <= 160
        /\ Len(invoice_summary.metadata_preview) <= 40
        /\ \A i \in 1..Len(invoice_summary.charge_items) :
               Len(invoice_summary.charge_items[i].compact) <= 400
        /\ \A i \in 1..Len(invoice_summary.metadata_preview) :
               Len(invoice_summary.metadata_preview[i].text) <= 400

\* every cap is met by a payload that exceeds it: more rows and elements than
\* are emitted, and texts cut to the cap
C10_Witness ==
    /\ sumPc = "summarized"
    /\ Len(pdf_payload.elements) > 40
    /\ Len(contract_summary.clauses) = 40
    /\ Len(text_value(pdf_payload.elements[1])) > 1200
    /\ Len(contract_summary.clauses[1].text) = 1200
    /\ invoice_summary.charge_item_count > 160
    /\ Len(invoice_summary.charge_items) = 160
    /\ Len(invoice_summary.charge_items[1].compact) = 400
    /\ invoice_summary.metadata_item_count > 40
    /\ Len(invoice_summary.metadata_preview) = 40
    /\ Len(invoice_summary.metadata_preview[1].text) = 400

\* the rows of every sheet as <<sheet name, line number, category>>, sheet
\* after sheet and row after row
RECURSIVE RowsInOrder(_, _)
RowsInOrder(sheets, k) ==
    IF k > Len(sheets) THEN <<>>
    ELSE [i \in 1..Len(sheets[k].rows) |->
             <<sheets[k].name, i, classify_row(sheets[k].rows[i])>>]
         \o RowsInOrder(sheets, k + 1)

Places(items) == [j \in 1..Len(items) |-> <<items[j].sheet, items[j].line_number>>]

\* C11: the counts are those of all the rows classified charge or
\* possible_charge, and metadata, whatever is emitted; the breakdown sums to
\* the charge count; the lists are the first 160 and 40 of those rows in
\* sheet-then-row order; an empty row is in no list and no count.
C11_CountsExact ==
    sumPc = "summarized" =>
        \E rows \in {RowsInOrder(excel_payload.sheets, 1)} :
        \E charges \in {SelectSeq(rows, LAMBDA x : x[3] \in {"charge", "possible_charge"})} :
        \E metadata \in {SelectSeq(rows, LAMBDA x : x[3] = "metadata")} :
            /\ invoice_summary.charge_item_count = Len(charges)
            /\ invoice_summary.metadata_item_count = Len(metadata)
            /\ invoice_summary.charge_category_breakdown.charge
                    = Len(SelectSeq(rows, LAMBDA x : x[3] = "charge"))
            /\ invoice_summary.charge_category_breakdown.charge
                 + invoice_summary.charge_category_breakdown.possible_charge
                    = invoice_summary.charge_item_count
            /\ Places(invoice_summary.charge_items)
                    = [j \in 1..(IF Len(charges) < 160 THEN Len(charges) ELSE 160) |->
                          <<charges[j][1], charges[j][2]>>]
            /\ Places(invoice_summary.metadata_preview)
                    = [j \in 1..(IF Len(metadata) < 40 THEN Len(metadata) ELSE 40) |->
                          <<metadata[j][1], metadata[j][2]>>]
            /\ \A j \in 1..Len(invoice_summary.charge_items) :
                   invoice_summary.charge_items[j].category = charges[j][3]
            /\ invoice_summary.total_line_items
                    = Len(rows) - Len(SelectSeq(rows, LAMBDA x : x[3] = "empty"))

\* more charge rows and metadata rows than are emitted, and an empty row
C11_Witness ==
    /\ sumPc = "summarized"
    /\ invoice_summary.charge_item_count > 160
    /\ Len(invoice_summary.charge_items) = 160
    /\ invoice_summary.metadata_item_count > 40
    /\ Len(invoice_summary.metadata_preview) = 40
    /\ invoice_summary.charge_category_breakdown.charge > 0
    /\ invoice_summary.charge_category_breakdown.possible_charge > 0
    /\ \E i \in 1..Len(excel_payload.sheets[1].rows) :
           classify_row(excel_payload.sheets[1].rows[i]) = "empty"

\* C12: segment_count is the number of elements of the payload, blank ones
\* included, whatever the number of clauses emitted.
C12_SegmentCount ==
    sumPc \in {"contract_done", "summarized"} =>
        contract_summary.segment_count = Len(pdf_payload.elements)

\* more than 40 elements with text, and blank ones among them
C12_Witness ==
    /\ sumPc = "contract_done"
    /\ Len(contract_summary.clauses) = 40
    /\ contract_summary.segment_count > 40
    /\ \E i \in 1..Len(pdf_payload.elements) :
           text_value(pdf_payload.elements[i]) = <<>>
    /\ Len(SelectSeq(pdf_payload.elements, LAMBDA e : text_value(e) # <<>>)) > 40

\* a contract payload with some non-blank element text
HasText(payload) ==
    \E i \in 1..Len(payload.elements) : text_value(payload.elements[i]) # <<>>

\* a workbook payload with a sheet that has a row that is not blank
HasRows(payload) ==
    \E i \in 1..Len(payload.sheets) :
        \E j \in 1..Len(payload.sheets[i].rows) :
            normalize_fields(payload.sheets[i].rows[j]) # <<>>

\* C16 (as claimed): process_documents saves and returns summaries only of
\* documents with usable content: a contract with some non-blank element
\* text and a workbook with some row that is not blank.
C16_ValidationError ==
    sumPc = "returned" => HasText(pdf_payload) /\ HasRows(excel_payload)

-----------------------------------------------------------------------------
(* Claims about run_analysis (checked under SpecAnalysis) *)

AlnumChars ==
    {DigitChars[i] : i \in 1..10} \cup {UpperChars[i] : i \in 1..26}
        \cup {LowerChars[i] : i \in 1..26}

\* the claim's test of a response: empty, one of {}, [], null, none, or
\* fewer than 30 alphanumeric characters
NotMeaningful(text) ==
    \/ Strip(text.s) = <<>>
    \/ Lower(Strip(text.s)) \in {<<"{", "}">>, <<"[", "]">>,
                                  <<"n", "u", "l", "l">>, <<"n", "o", "n", "e">>}
    \/ Len(SelectSeq(text.s, LAMBDA c : c \in AlnumChars)) < 30

\* C13 (as claimed): an analysis that returns has made one chat_completion
\* call or two; it has made only one when that call's response, which it
\* returns, was meaningful: a response that is not meaningful is followed by
\* one corrective re-prompt.
C13_QualityGate ==
    analysis.pc = "returned" =>
        /\ thread[Analyst].chat_calls \in {1, 2}
        /\ thread[Analyst].chat_calls = 1
              => ~NotMeaningful(analysis.result.comment_md)

\* C15: one run_analysis invocation makes one chat_completion call: once the
\* node has ended, with a response or an error, exactly one call has been
\* made and no other is started, so the invocation posts at most 3
\* completion requests.
C15_OneRetryLayer ==
    /\ thread[Analyst].chat_calls <= 1
    /\ thread[Analyst].chat_posts <= MaxAttempts
    /\ analysis.pc \in {"save", "returned", "raised"} =>
            /\ thread[Analyst].chat_calls = 1
            /\ thread[Analyst].calls = 0
            /\ thread[Analyst].pc \in {"returned", "raised"}

\* the call failed three times and run_analysis raised after that one call
C15_Witness ==
    /\ analysis.pc = "raised"
    /\ thread[Analyst].chat_calls = 1
    /\ thread[Analyst].chat_posts = MaxAttempts

\* a chat_completion call is under way
InCall(r) == thread[r].pc \notin {"off", "idle", "returned", "raised"}

\* a step of the run keeps to the ways a call may end
EndsInOrder(r) ==
    /\ (thread'[r].pc = "returned" /\ thread[r].pc # "returned") =>
            (/\ thread[r].pc = "await_chat"
             /\ thread'[r].attempt_number = thread[r].attempt_number
             /\ thread'[r].outcome \in
                    {[returned |-> content_of(response)] :
                        response \in {c \in endpoint.chat : chat_error(c) = "none"}})
    /\ (thread'[r].pc = "raised" /\ thread[r].pc # "raised") =>
            (/\ thread[r].pc = "failed"
             /\ thread'[r].attempt_number = thread[r].attempt_number
             /\ thread'[r].outcome = [raised |-> thread[r].error]
             /\ \/ thread[r].attempt_number = MaxAttempts
                \/ thread[r].error.type
                      \notin {"RequestException", "SAPAICoreClientError"})
    /\ (/\ thread[r].pc = "failed"
        /\ thread[r].error.type \notin {"RequestException", "SAPAICoreClientError"}) =>
            (thread'[r].pc \in {"failed", "raised"})
    /\ (thread[r].pc \in {"returned", "raised"}) =>
            (\/ thread'[r] = thread[r]
             \/ thread'[r].chat_calls = thread[r].chat_calls + 1)

\* C18: a chat_completion call that has begun ends, given that every HTTP
\* call returns or times out.  It ends by returning the content of an
\* attempt that succeeded, straight after that attempt, or by raising the
\* error of its third attempt, or by raising, straight after the attempt that
\* met it, an error that is neither a requests error nor SAPAICoreClientError.
\* After it has ended no attempt follows unless chat_completion is called
\* again.
C18_RunsToEnd ==
    /\ InCall(Analyst) ~> thread[Analyst].pc \in {"returned", "raised"}
    /\ [][EndsInOrder(Analyst)]_vars

\* the call returned the content of its third attempt, the first to succeed
C18_Witness ==
    /\ thread[Analyst].pc = "returned"
    /\ thread[Analyst].attempt_number = MaxAttempts
    /\ "returned" \in DOMAIN thread[Analyst].outcome

\* C20: when the chat_completion call of the comment node has raised, the
\* invocation does not go on to save or return a comment: run_analysis ends
\* by raising that same error, with no result, no comment.md in the storage,
\* and the files process_documents saved for the run as they were.
C20_StageFailure ==
    (thread[Analyst].pc = "raised" /\ thread[Analyst].calls = 0) =>
        /\ analysis.pc \in {"completion", "raised"}
        /\ analysis.pc = "raised" => analysis.error = thread[Analyst].outcome.raised
        /\ analysis.result = PyNone
        /\ analysis.comment_md = PyNone
        /\ "comment.md" \notin DOMAIN storage
        /\ storage = ProcessedFiles

\* run_analysis raised the error of the third failed attempt
C20_Witness ==
    /\ analysis.pc = "raised"
    /\ analysis.error.attempt = MaxAttempts
    /\ DOMAIN storage =
          {"contract.yaml", "invoice.yaml", "contract_summary.yaml",
           "invoice_summary.yaml"}

-----------------------------------------------------------------------------
(* Claims about the handling of one response (checked under SpecReply) *)

\* a 200 response without usable content: no choices, or a first choice whose
\* message.content is missing, null or empty
NoContent(body) ==
    /\ body.status = 200
    /\ \/ ~has_choices(body)
       \/ /\ body.first.kind # "not_a_dict"
          /\ message_of(body).content # "text"

ClientError(client) ==
    IF client = "SAPAICoreClient" THEN "SAPAICoreClientError" ELSE "OpenAIClientError"

\* C14 (as claimed): either client, given a 200 response without choices or
\* with null or empty content in the first choice, raises its own error and
\* returns no text.
C14_ProtocolError ==
    (reply.pc = "done" /\ NoContent(reply.body)) =>
        /\ "raised" \in DOMAIN reply.outcome
        /\ reply.outcome.raised = ClientError(reply.client)

-----------------------------------------------------------------------------
(* Claims about the construction of the service (checked under SpecService) *)

\* C21 (as claimed): the construction of the service raises nothing, and once
\* it has run the service holds a client without a token, with expiry 0, and
\* a workflow compiled around that client.
C21_ConstructionSucceeds ==
    /\ service.pc # "raised"
    /\ service.pc = "constructed" =>
            /\ service.llm_client._token = PyNone
            /\ service.llm_client._token_expiry = 0
            /\ service.workflow.client = service.llm_client

=============================================================================
